---- MODULE Spec2Model ----
(***************************************************************************)
(* Incremental Static Regeneration (rx-angular isr server):                *)
(*   CacheGeneration.generateWithCacheKey  (cache-generation.ts)           *)
(*   renderUrl                             (utils/render-url.ts)           *)
(*   executeWithTimeout                    (utils/timeout.ts)              *)
(*   ISRHandler.serveFromCache / invalidate (isr-handler.ts)               *)
(*                                                                         *)
(* One action is one macrotask of the JavaScript event loop (an I/O        *)
(* completion, a timer callback, an incoming request) together with every  *)
(* microtask continuation it releases: an awaiting caller resumes in the   *)
(* same action in which the awaited promise settles.                       *)
(*                                                                         *)
(* Optional numbers (number | null | undefined) are sets: {} is absent,    *)
(* {n} is the number n.  Time is in milliseconds and advances by whole     *)
(* seconds; a timer that is due fires (or is cleared) before time moves on.*)
(***************************************************************************)
EXTENDS Integers, Sequences, FiniteSets, TLC

\* ------------------------------------------------------------------ bounds
MaxNowSec == 3            \* the clock stops after this many seconds
RenderingTimeoutSec == 2  \* isrConfig.renderingTimeoutMs, in seconds
CacheTimeoutSec == 1      \* isrConfig.cacheTimeoutMs, in seconds
MaxRevalidate == 1        \* largest revalidate value (seconds)
MaxNegRevalidate == 2     \* most negative revalidate value is -MaxNegRevalidate
MaxCalls == 2             \* concurrent requests, one generateWithCacheKey call each
MaxExecs == 2             \* concurrent executeWithTimeout calls made on their own
MaxItems == 4             \* rebuild items of one invalidate request

\* --------------------------------------------------------- program constants
MsPerSec == 1000

renderingTimeoutMs == RenderingTimeoutSec * MsPerSec
cacheTimeoutMs == CacheTimeoutSec * MsPerSec

\* ---------------------------------------------------------------- cache keys
\* Request urls: two paths, and one url with a query string.
Paths == {"/a", "/b"}
Urls == Paths \cup {"/a?x=1"}

\* new URL(url, base): the pathname and the search parameters of a url
URLOf(url) ==
  IF url = "/a?x=1"
  THEN [pathname |-> "/a", searchParams |-> <<[name |-> "x", value |-> "1"]>>]
  ELSE [pathname |-> url, searchParams |-> <<>>]

\* RenderVariant | null: a variant has an identifier and may have simulateVariant
NoVariant == [identifier |-> "null", simulateVariant |-> FALSE]
VariantIds == {"v1", "v2"}
Variants == [identifier : VariantIds, simulateVariant : BOOLEAN]

\* allowedQueryParams: string[] | null | undefined
AllowedQueryParams == {{}, {<<"y">>}, {<<"x">>}}

RECURSIVE SearchString(_)
\* URLSearchParams.toString(): name=value pairs joined by &
SearchString(searchParams) ==
  IF searchParams = <<>> THEN ""
  ELSE Head(searchParams).name \o "=" \o Head(searchParams).value \o
       (IF Len(searchParams) = 1 THEN "" ELSE "&" \o SearchString(Tail(searchParams)))

\* the default generator: only the allowed query parameters are kept, and the
\* identifier of the variant is appended
defaultCacheKeyGenerator(url, allowedQueryParams, variant) ==
  LET kept == SelectSeq(URLOf(url).searchParams,
                        LAMBDA q : \E allowed \in allowedQueryParams :
                                     \E i \in 1..Len(allowed) : allowed[i] = q.name)
      normalizedUrl ==
        IF allowedQueryParams = {} THEN url
        ELSE URLOf(url).pathname \o
             (IF kept = <<>> THEN "" ELSE "?" \o SearchString(kept))
  IN IF variant = NoVariant THEN normalizedUrl
     ELSE normalizedUrl \o variant.identifier

\* a generator supplied by the caller in isrConfig.cacheKeyGenerator
customCacheKeyGenerator(url, allowedQueryParams, variant) ==
  IF variant = NoVariant THEN "key:" \o url
  ELSE "key:" \o url \o ":" \o variant.identifier

\* ------------------------------------------------------------------ domains
\* every key a generator can give, and every url (a key of its own in places)
CacheKeys ==
  Urls \cup
  {defaultCacheKeyGenerator(url, allowed, variant) :
     url \in Urls, allowed \in AllowedQueryParams,
     variant \in {NoVariant} \cup Variants} \cup
  {customCacheKeyGenerator(url, allowed, variant) :
     url \in Urls, allowed \in AllowedQueryParams,
     variant \in {NoVariant} \cup Variants}
HotKeys == {"/a"}        \* the keys that concurrent requests compete for
Calls == 1..MaxCalls
Slots == 1..MaxItems     \* call slots: one per request, or per rebuild item
Modes == {"regenerate", "generate"}
Absent == {}
Revalidates == {Absent} \cup {{n} : n \in (0 - MaxNegRevalidate)..MaxRevalidate}
BuildIds == {"null", "b1", "b2"}

VARIABLES
  isrConfig,    \* ISRHandlerConfig after the constructors ran
  now,          \* Date.now(), ms
  urlsOnHold,   \* CacheGeneration.urlsOnHold: string[]
  store,        \* the CacheHandler's entries, by cache key
  calls,        \* generateWithCacheKey invocations, one slot per request
  adds,         \* addToCache invocations (cache.add under executeWithTimeout)
  reqs,         \* serveFromCache and render requests
  inv,          \* the invalidate request
  execs         \* executeWithTimeout calls made on their own

vars == <<isrConfig, now, urlsOnHold, store, calls, adds, reqs, inv, execs>>

\* ------------------------------------------------------------ store entries
NoEntry ==
  [present |-> FALSE, html |-> 0, revalidate |-> Absent, buildId |-> "null",
   createdAt |-> 0]

CacheData(html, revalidate, buildId, createdAt) ==
  [present |-> TRUE, html |-> html, revalidate |-> revalidate,
   buildId |-> buildId, createdAt |-> createdAt]

\* ------------------------------------------------------- executeWithTimeout
\* The race of one executeWithTimeout call: its timer and how it settled.
NoRace == [timer |-> FALSE, deadline |-> 0, outcome |-> "none"]

\* a timer set without its delay
executeWithTimeout_NoDelay(timeoutMs) ==
  [timer |-> TRUE, deadline |-> now, outcome |-> "pending"]

\* setTimeout(..., timeoutMs), then await Promise.race([promise, timeoutPromise])
executeWithTimeout(timeoutMs) ==
  [timer |-> TRUE, deadline |-> now + timeoutMs, outcome |-> "pending"]

\* a finally block that clears nothing
ClearTimeout_Forgotten(race) == race

\* the finally block: the timer is cleared however the race ended
ClearTimeout(race) == [race EXCEPT !.timer = FALSE, !.deadline = 0]

\* the race settles with the operation's value or error, or with the timeout
Settle(race, outcome) == ClearTimeout([race EXCEPT !.outcome = outcome])

\* the timer callback may run: the timer is pending and due
TimerDue(race) == race.timer /\ race.deadline <= now

\* ----------------------------------------------------------------- getCacheKey
\* CacheGeneration.getCacheKey: isrConfig.cacheKeyGenerator, which the
\* constructor sets to defaultCacheKeyGenerator when the caller gave none
getCacheKey(url, allowedQueryParams, variant) ==
  IF isrConfig.cacheKeyGenerator = "custom"
  THEN customCacheKeyGenerator(url, allowedQueryParams, variant)
  ELSE defaultCacheKeyGenerator(url, allowedQueryParams, variant)

\* ---------------------------------------------------------------- renderUrl
\* commonEngine.render goes through executeWithTimeout; res.render has no timer
renderUrl(timeoutMs) ==
  IF isrConfig.commonEngine
  THEN executeWithTimeout(timeoutMs)
  ELSE [timer |-> FALSE, deadline |-> 0, outcome |-> "pending"]

\* ------------------------------------------------- generateWithCacheKey state
\* st: idle, render (awaiting renderUrl), add (awaiting addToCache), done
\* res: none, void (the early return), html, htmlErrors, throw
\* html: the markup rendered by this call is named by the slot; 0 is none
\* due: when the configured rendering timeout of this call elapses
\* rendering: the renderer is at work; rendered: how it ended (none, html, error)
\* nth: the place of this invocation among all invocations, in call order
IdleCall ==
  [st |-> "idle", mode |-> "generate", key |-> "/a", res |-> "none",
   err |-> "none", html |-> 0, pushed |-> FALSE, onHoldAtCall |-> FALSE,
   due |-> 0, rendering |-> FALSE, rendered |-> "none", nth |-> 0,
   race |-> NoRace]

\* st: none, pending (cache.add running, race open), late (race timed out,
\* cache.add still running), done
NoAdd ==
  [st |-> "none", key |-> "/a", html |-> 0, revalidate |-> Absent,
   race |-> NoRace]

\* urlsOnHold.includes(cacheKey)
Includes(list, cacheKey) == \E i \in 1..Len(list) : list[i] = cacheKey

\* urlsOnHold.filter((x) => x !== cacheKey)
Filter(list, cacheKey) == SelectSeq(list, LAMBDA x : x # cacheKey)

\* a check that never finds the key on hold
SkipRegeneration_Never(mode, cacheKey) == FALSE

\* mode === 'regenerate' && urlsOnHold.includes(cacheKey): the early return
SkipRegeneration(mode, cacheKey) ==
  mode = "regenerate" /\ Includes(urlsOnHold, cacheKey)

\* revalidate || defaultRevalidate  (0, null and undefined are falsy)
ResolveRevalidate(reported, defaultRevalidate) ==
  IF reported = Absent \/ reported = {0} THEN defaultRevalidate ELSE reported

\* revalidate === -1, or revalidate === null || revalidate === undefined
NotCached(revalidate) == revalidate = {-1} \/ revalidate = Absent

\* an error policy that caches whatever the page reports
SkipCachingOnError_Never(hasErrors) == FALSE

\* errors?.length && skipCachingOnHttpError
SkipCachingOnError(hasErrors) == hasErrors /\ isrConfig.skipCachingOnHttpError

\* a removal that does not look at the mode
Release_AnyMode(mode, cacheKey) == Filter(urlsOnHold, cacheKey)

\* removal of the key when an attempt ends (mode 'regenerate' only)
Release(mode, cacheKey) ==
  IF mode = "regenerate" THEN Filter(urlsOnHold, cacheKey) ELSE urlsOnHold

\* the call returns or throws
Return(call, res, err) ==
  [call EXCEPT !.st = "done", !.res = res, !.err = err, !.due = 0,
               !.race = IF call.race.outcome = "pending"
                        THEN Settle(call.race, IF err = "timeout" THEN "timeout"
                                               ELSE IF err = "render" THEN "error"
                                               ELSE "value")
                        ELSE call.race]

\* ------------------------------------------------------ serveFromCache state
\* pc: idle, get (awaiting cache.get), generate (awaiting the regeneration), done
\* cacheData: what cache.get returned; readAt: Date.now() of the expiry check
\* sends / nexts: calls of res.send and of next(); sentHtml: the markup sent
IdleReq ==
  [pc |-> "idle", key |-> "/a", race |-> NoRace, cacheData |-> NoEntry,
   readAt |-> 0, regenerated |-> FALSE, sends |-> 0, nexts |-> 0, sentHtml |-> 0]

\* next(); return
Fallthrough(req) == [req EXCEPT !.pc = "done", !.nexts = @ + 1]

\* return res.send(finalHtml)
Send(req, finalHtml) ==
  [req EXCEPT !.pc = "done", !.sends = @ + 1, !.sentHtml = finalHtml]

\* a build id check that is left out
BuildIdMismatch_Never(cacheData) == FALSE

\* cacheHasBuildId && cacheConfig.buildId !== this.isrConfig.buildId
BuildIdMismatch(cacheData) ==
  cacheData.buildId # "null" /\ cacheData.buildId # isrConfig.buildId

\* an expiry check with >= for >
IsExpired_AtBoundary(cacheData) ==
  \E n \in cacheData.revalidate :
    n > 0 /\ now - cacheData.createdAt >= n * MsPerSec

\* an expiry check that does not exempt revalidate 0
IsExpired_ZeroExpires(cacheData) ==
  \E n \in cacheData.revalidate : now - cacheData.createdAt > n * MsPerSec

\* cacheConfig.revalidate && cacheConfig.revalidate > 0 &&
\* (Date.now() - createdAt) / 1000 > cacheConfig.revalidate
IsExpired(cacheData) ==
  \E n \in cacheData.revalidate :
    n > 0 /\ now - cacheData.createdAt > n * MsPerSec

\* a handler that always awaits the regeneration
BackgroundRevalidation_Never == FALSE

\* if (this.isrConfig.backgroundRevalidation): generate() is not awaited
BackgroundRevalidation == isrConfig.backgroundRevalidation

\* serveFromCache after `await generate()`: result?.html replaces the stored
\* markup; a throw runs the inner catch (next()) and falls on to res.send
AfterGenerate(req, res, html) ==
  IF res = "throw"
  THEN Send([req EXCEPT !.nexts = @ + 1], req.cacheData.html)
  ELSE IF res \in {"html", "htmlErrors"} THEN Send(req, html)
  ELSE Send(req, req.cacheData.html)

\* render after `await this.cacheGeneration.generate(...)`: result.html is sent;
\* no html, or a throw, ends in the catch block's next()
AfterRender(req, res, html) ==
  IF res \in {"html", "htmlErrors"} THEN Send(req, html) ELSE Fallthrough(req)

\* ---------------------------------------------------------- invalidate state
\* pc: idle, has (awaiting cache.has), generate (awaiting the rebuild), done
\* variantUrlsToInvalidate: getVariantUrlsToInvalidate's list; items: its cache
\* keys (variantUrlsToInvalidate.map(val => val.cacheKey)); i: the item in work
\* urlExists: what the cache.has of each item gave: true, false, error, timeout
\* response: none, wrongToken, noUrls, success
\* token, hasUrls, urlsToInvalidate: the request body (hasUrls: the list is given)
IdleInv ==
  [pc |-> "idle", token |-> "undefined", hasUrls |-> FALSE,
   urlsToInvalidate |-> <<>>, variantUrlsToInvalidate |-> <<>>,
   items |-> <<>>, urlExists |-> <<>>, i |-> 0, race |-> NoRace,
   notInCache |-> <<>>, urlWithErrors |-> {}, invalidatedUrls |-> <<>>,
   response |-> "none", hasCalls |-> 0]

\* the messages of the two error responses (the second without its backquotes)
WrongTokenMessage == "Your secret token is wrong!!!"
NoUrlsMessage == "Please add urlsToInvalidate in the payload!"

Message(response) ==
  IF response = "wrongToken" THEN WrongTokenMessage
  ELSE IF response = "noUrls" THEN NoUrlsMessage
  ELSE ""

\* a token check that lets every token pass
WrongToken_Never(token) == FALSE

\* token !== this.isrConfig.invalidateSecretToken
WrongToken(token) == token # isrConfig.invalidateSecretToken

\* !urlsToInvalidate || !urlsToInvalidate.length
NoUrls(hasUrls, urlsToInvalidate) == ~hasUrls \/ Len(urlsToInvalidate) = 0

\* the item of a url in a variant: the variant's cache key, and its
\* simulateVariant (named by the identifier) or else the identity
VariantItem(url, variant) ==
  [url |-> url,
   cacheKey |-> getCacheKey(url, isrConfig.allowedQueryParams, variant),
   reqSimulator |-> IF variant.simulateVariant THEN variant.identifier
                    ELSE "defaultVariant"]

\* an inner loop that stops after the first variant
PushVariants_FirstOnly(url, variants) ==
  IF variants = <<>> THEN <<>> ELSE <<VariantItem(url, Head(variants))>>

RECURSIVE PushVariants(_, _)
\* for (const variant of variants) result.push({...})
PushVariants(url, variants) ==
  IF variants = <<>> THEN <<>>
  ELSE <<VariantItem(url, Head(variants))>> \o PushVariants(url, Tail(variants))

RECURSIVE getVariantUrlsToInvalidate(_)
\* for (const url of urlsToInvalidate): the default item, with the url as its
\* cache key and the identity as simulator, then the items of the variants
getVariantUrlsToInvalidate(urlsToInvalidate) ==
  IF urlsToInvalidate = <<>> THEN <<>>
  ELSE <<[url |-> Head(urlsToInvalidate), cacheKey |-> Head(urlsToInvalidate),
          reqSimulator |-> "defaultVariant"]>>
       \o PushVariants(Head(urlsToInvalidate), isrConfig.variants)
       \o getVariantUrlsToInvalidate(Tail(urlsToInvalidate))

\* variantUrlsToInvalidate.map((val) => val.cacheKey)
MapCacheKey(variantUrlsToInvalidate) ==
  [i \in 1..Len(variantUrlsToInvalidate) |-> variantUrlsToInvalidate[i].cacheKey]

\* a report that lists every processed key as invalidated
InvalidatedUrls_All(items, notInCache, urlWithErrors) == items

\* variantUrlsToInvalidate.map(cacheKey).filter(not in notInCache, no errors)
InvalidatedUrls(items, notInCache, urlWithErrors) ==
  SelectSeq(items, LAMBDA k : ~Includes(notInCache, k) /\ k \notin urlWithErrors)

\* the for loop moves on: cache.has of the next item under executeWithTimeout,
\* or, after the last item, the report
NextItem(v) ==
  IF v.i < Len(v.items)
  THEN [v EXCEPT !.pc = "has", !.i = @ + 1, !.hasCalls = @ + 1,
                 !.race = executeWithTimeout(cacheTimeoutMs)]
  ELSE [v EXCEPT !.pc = "done", !.i = 0, !.race = ClearTimeout(@),
                 !.response = "success",
                 !.invalidatedUrls =
                    InvalidatedUrls(v.items, v.notInCache, v.urlWithErrors)]

\* a loop that gives up at the first key it does not find
NotInCache_Aborts(v) ==
  [v EXCEPT !.pc = "done", !.i = 0, !.race = ClearTimeout(@),
            !.notInCache = Append(@, v.items[v.i]), !.response = "success",
            !.invalidatedUrls = InvalidatedUrls(v.items, @, v.urlWithErrors)]

\* !urlExists: notInCache.push(cacheKey); continue
NotInCache(v) ==
  NextItem([v EXCEPT !.notInCache = Append(@, v.items[v.i]),
                     !.urlExists = Append(@, IF v.race.outcome = "value" THEN "false"
                                             ELSE v.race.outcome)])

\* invalidate after `await generateWithCacheKey(...)`: errors of the result, or
\* a throw, are recorded under the cache key
AfterRebuild(v, res) ==
  NextItem(IF res \in {"htmlErrors", "throw"}
           THEN [v EXCEPT !.urlWithErrors = @ \cup {v.items[v.i]}]
           ELSE v)

\* generateWithCacheKey of slot c returned: its awaiting caller, if any, resumes
Resume(c, res, html) ==
  /\ reqs' = IF reqs[c].pc = "generate"
             THEN [reqs EXCEPT ![c] = AfterGenerate(reqs[c], res, html)]
             ELSE IF reqs[c].pc = "render"
             THEN [reqs EXCEPT ![c] = AfterRender(reqs[c], res, html)]
             ELSE reqs
  /\ inv' = IF inv.pc = "generate" /\ inv.i = c
            THEN AfterRebuild(inv, res)
            ELSE inv

\* ------------------------------------------------------ generateWithCacheKey
\* the invocations of generateWithCacheKey made so far
Invocations == Cardinality({d \in Slots : calls[d].st # "idle"})

\* The synchronous head of generateWithCacheKey: the on-hold check, the push,
\* and renderUrl's call of the renderer.
generateWithCacheKey(c, mode, cacheKey) ==
  /\ calls[c].st = "idle"
  /\ IF SkipRegeneration(mode, cacheKey)
     THEN /\ calls' = [calls EXCEPT ![c] =
                 [IdleCall EXCEPT !.st = "done", !.mode = mode, !.key = cacheKey,
                                  !.res = "void", !.onHoldAtCall = TRUE,
                                  !.nth = Invocations + 1]]
          /\ UNCHANGED urlsOnHold
     ELSE /\ urlsOnHold' = IF mode = "regenerate"
                           THEN Append(urlsOnHold, cacheKey) ELSE urlsOnHold
          /\ calls' = [calls EXCEPT ![c] =
                 [IdleCall EXCEPT !.st = "render", !.mode = mode, !.key = cacheKey,
                                  !.html = c,
                                  !.pushed = (mode = "regenerate"),
                                  !.onHoldAtCall =
                                     (\E i \in DOMAIN urlsOnHold : urlsOnHold[i] = cacheKey),
                                  !.due = now + renderingTimeoutMs,
                                  !.rendering = TRUE,
                                  !.nth = Invocations + 1,
                                  !.race = renderUrl(renderingTimeoutMs)]]

\* a caller outside serveFromCache calls generateWithCacheKey
Call(c, mode, cacheKey) ==
  /\ reqs[c].pc = "idle"
  /\ generateWithCacheKey(c, mode, cacheKey)
  /\ UNCHANGED <<isrConfig, now, store, adds, reqs, inv, execs>>

\* the renderer fails before the deadline: the catch block releases and rethrows
RenderReject(c) ==
  /\ calls[c].st = "render"
  /\ calls' = [calls EXCEPT ![c] =
                 [Return(calls[c], "throw", "render") EXCEPT !.rendering = FALSE,
                                                             !.rendered = "error"]]
  /\ urlsOnHold' = Release(calls[c].mode, calls[c].key)
  /\ Resume(c, "throw", 0)
  /\ UNCHANGED <<isrConfig, now, store, adds, execs>>

\* the render timer fires: executeWithTimeout rejects, the renderer keeps running
RenderTimeout(c) ==
  /\ calls[c].st = "render"
  /\ TimerDue(calls[c].race)
  /\ calls' = [calls EXCEPT ![c] = Return(calls[c], "throw", "timeout")]
  /\ urlsOnHold' = Release(calls[c].mode, calls[c].key)
  /\ Resume(c, "throw", 0)
  /\ UNCHANGED <<isrConfig, now, store, adds, execs>>

\* a renderer whose call timed out ends later, with markup (ok) or with an
\* error; nobody listens
RenderFinishLate(c, ok) ==
  /\ calls[c].st = "done"
  /\ calls[c].rendering
  /\ calls' = [calls EXCEPT ![c].rendering = FALSE,
                            ![c].rendered = IF ok THEN "html" ELSE "error"]
  /\ UNCHANGED <<isrConfig, now, urlsOnHold, store, adds, reqs, inv, execs>>

\* cache.add(cacheKey, finalHtml, {revalidate, buildId}) under executeWithTimeout
addToCache(cacheKey, html, revalidate) ==
  [st |-> "pending", key |-> cacheKey, html |-> html, revalidate |-> revalidate,
   race |-> executeWithTimeout(cacheTimeoutMs)]

\* The renderer delivers markup before the deadline.  reported / hasErrors are
\* what getRouteISRDataFromHTML reads from it; postOk is whether
\* modifyGeneratedHtml and compressHtml return normally.
RenderResolve(c, reported, hasErrors, postOk) ==
  /\ calls[c].st = "render"
  /\ LET call == [calls[c] EXCEPT !.rendering = FALSE, !.rendered = "html"]
         revalidate == ResolveRevalidate(reported, isrConfig.defaultRevalidate)
     IN
     IF ~postOk
     THEN /\ calls' = [calls EXCEPT ![c] = Return(call, "throw", "post")]
          /\ urlsOnHold' = Release(call.mode, call.key)
          /\ Resume(c, "throw", 0)
          /\ UNCHANGED adds
     ELSE IF SkipCachingOnError(hasErrors)
     THEN /\ calls' = [calls EXCEPT ![c] = Return(call, "htmlErrors", "none")]
          /\ urlsOnHold' = Release(call.mode, call.key)
          /\ Resume(c, "htmlErrors", call.html)
          /\ UNCHANGED adds
     ELSE IF NotCached(revalidate)
     THEN /\ calls' = [calls EXCEPT ![c] = Return(call, "html", "none")]
          /\ Resume(c, "html", call.html)
          /\ UNCHANGED <<urlsOnHold, adds>>
     ELSE /\ adds' = [adds EXCEPT ![c] = addToCache(call.key, call.html, revalidate)]
          /\ IF isrConfig.nonBlockingRender
             THEN /\ calls' = [calls EXCEPT ![c] = Return(call, "html", "none")]
                  /\ urlsOnHold' = Release(call.mode, call.key)
                  /\ Resume(c, "html", call.html)
             ELSE /\ calls' = [calls EXCEPT ![c] =
                                 [call EXCEPT !.st = "add", !.due = 0,
                                              !.race = Settle(@, "value")]]
                  /\ UNCHANGED <<urlsOnHold, reqs, inv>>
  /\ UNCHANGED <<isrConfig, now, store, execs>>

\* an addToCache without its try/catch: a failed write fails the call
AfterAdd_Rethrows(c) ==
  IF calls[c].st = "add"
  THEN /\ calls' = [calls EXCEPT ![c] =
                      IF adds'[c].race.outcome = "value"
                      THEN Return(calls[c], "html", "none")
                      ELSE Return(calls[c], "throw", "add")]
       /\ urlsOnHold' = Release(calls[c].mode, calls[c].key)
       /\ Resume(c, IF adds'[c].race.outcome = "value" THEN "html" ELSE "throw",
                 calls[c].html)
  ELSE UNCHANGED <<calls, urlsOnHold, reqs, inv>>

\* generateWithCacheKey after `await addToCache()`: release and return the markup
AfterAdd(c) ==
  IF calls[c].st = "add"
  THEN /\ calls' = [calls EXCEPT ![c] = Return(calls[c], "html", "none")]
       /\ urlsOnHold' = Release(calls[c].mode, calls[c].key)
       /\ Resume(c, "html", calls[c].html)
  ELSE UNCHANGED <<calls, urlsOnHold, reqs, inv>>

\* a store that acknowledges a write and keeps nothing
Written_Nothing(add) == store

\* CacheHandler.add stores the entry, stamped with the time of the write
Written(add) ==
  [store EXCEPT ![add.key] =
     CacheData(add.html, add.revalidate, isrConfig.buildId, now)]

AddDone(add, outcome) ==
  [NoAdd EXCEPT !.st = "done", !.race = Settle(add.race, outcome)]

\* cache.add completes before the deadline
AddResolve(c) ==
  /\ adds[c].st = "pending"
  /\ store' = Written(adds[c])
  /\ adds' = [adds EXCEPT ![c] = AddDone(adds[c], "value")]
  /\ AfterAdd(c)
  /\ UNCHANGED <<isrConfig, now, execs>>

\* cache.add fails before the deadline: addToCache catches and logs
AddReject(c) ==
  /\ adds[c].st = "pending"
  /\ adds' = [adds EXCEPT ![c] = AddDone(adds[c], "error")]
  /\ AfterAdd(c)
  /\ UNCHANGED <<isrConfig, now, store, execs>>

\* the cache timer fires: addToCache catches the timeout, cache.add keeps running
AddTimeout(c) ==
  /\ adds[c].st = "pending"
  /\ TimerDue(adds[c].race)
  /\ adds' = [adds EXCEPT ![c] =
                [adds[c] EXCEPT !.st = "late", !.race = Settle(@, "timeout")]]
  /\ AfterAdd(c)
  /\ UNCHANGED <<isrConfig, now, store, execs>>

\* a cache.add whose caller gave up lands (or fails) later
AddFinishLate(c, lands) ==
  /\ adds[c].st = "late"
  /\ store' = IF lands THEN Written(adds[c]) ELSE store
  /\ adds' = [adds EXCEPT ![c] = AddDone(adds[c], "timeout")]
  /\ UNCHANGED <<isrConfig, now, urlsOnHold, calls, reqs, inv, execs>>

\* ----------------------------------------------------------- serveFromCache
\* the head of serveFromCache: the cache key and cache.get under executeWithTimeout
serveFromCache(p, cacheKey) ==
  /\ reqs[p].pc = "idle"
  /\ calls[p].st = "idle"
  /\ reqs' = [reqs EXCEPT ![p] =
                [IdleReq EXCEPT !.pc = "get", !.key = cacheKey,
                                !.race = executeWithTimeout(cacheTimeoutMs)]]
  /\ UNCHANGED <<isrConfig, now, urlsOnHold, store, calls, adds, inv, execs>>

\* cache.get fails, or its timer fires: the inner catch calls next()
GetReject(p) ==
  /\ reqs[p].pc = "get"
  /\ reqs' = [reqs EXCEPT ![p] =
                Fallthrough([reqs[p] EXCEPT !.race = Settle(@, "error")])]
  /\ UNCHANGED <<isrConfig, now, urlsOnHold, store, calls, adds, inv, execs>>

GetTimeout(p) ==
  /\ reqs[p].pc = "get"
  /\ TimerDue(reqs[p].race)
  /\ reqs' = [reqs EXCEPT ![p] =
                Fallthrough([reqs[p] EXCEPT !.race = Settle(@, "timeout")])]
  /\ UNCHANGED <<isrConfig, now, urlsOnHold, store, calls, adds, inv, execs>>

\* cache.get answers before the deadline; the rest of serveFromCache runs up to
\* res.send, next() or `await generate()`
GetResolve(p) ==
  /\ reqs[p].pc = "get"
  /\ LET cacheData == store[reqs[p].key]
         req == [reqs[p] EXCEPT !.race = Settle(@, "value"),
                                !.cacheData = cacheData, !.readAt = now]
     IN
     IF ~cacheData.present \/ BuildIdMismatch(cacheData)
     THEN /\ reqs' = [reqs EXCEPT ![p] = Fallthrough(req)]
          /\ UNCHANGED <<calls, urlsOnHold>>
     ELSE IF IsExpired(cacheData)
     THEN /\ generateWithCacheKey(p, "regenerate", req.key)
          /\ reqs' = [reqs EXCEPT ![p] =
               IF BackgroundRevalidation
                  \/ SkipRegeneration("regenerate", req.key)
               THEN Send([req EXCEPT !.regenerated = TRUE], cacheData.html)
               ELSE [req EXCEPT !.regenerated = TRUE, !.pc = "generate"]]
     ELSE /\ reqs' = [reqs EXCEPT ![p] = Send(req, cacheData.html)]
          /\ UNCHANGED <<calls, urlsOnHold>>
  /\ UNCHANGED <<isrConfig, now, store, adds, inv, execs>>

\* ------------------------------------------------------------------- render
\* ISRHandler.render: generate(req, res, providers, 'generate'), awaited
render(p, cacheKey) ==
  /\ reqs[p].pc = "idle"
  /\ generateWithCacheKey(p, "generate", cacheKey)
  /\ reqs' = [reqs EXCEPT ![p] = [IdleReq EXCEPT !.pc = "render", !.key = cacheKey]]
  /\ UNCHANGED <<isrConfig, now, store, adds, inv, execs>>

\* --------------------------------------------------------------- invalidate
Tokens == {"undefined", "null", "s", "x"}
Secrets == {"null", "s"}

\* extractDataFromBody, the two checks, and the first cache.has of the loop
invalidate(token, hasUrls, urlsToInvalidate) ==
  /\ inv.pc = "idle"
  /\ LET body == [IdleInv EXCEPT !.token = token, !.hasUrls = hasUrls,
                                  !.urlsToInvalidate = urlsToInvalidate]
     IN inv' = IF WrongToken(token)
               THEN [body EXCEPT !.pc = "done", !.response = "wrongToken"]
               ELSE IF NoUrls(hasUrls, urlsToInvalidate)
               THEN [body EXCEPT !.pc = "done", !.response = "noUrls"]
               ELSE LET list == getVariantUrlsToInvalidate(urlsToInvalidate)
                    IN NextItem([body EXCEPT !.variantUrlsToInvalidate = list,
                                             !.items = MapCacheKey(list)])
  /\ UNCHANGED <<isrConfig, now, urlsOnHold, store, calls, adds, reqs, execs>>

\* cache.has answers before the deadline: an absent key goes to notInCache, a
\* present one is rebuilt with mode 'generate'
HasResolve ==
  /\ inv.pc = "has"
  /\ LET v == [inv EXCEPT !.race = Settle(@, "value")]
         cacheKey == inv.items[inv.i]
     IN
     IF store[cacheKey].present
     THEN /\ generateWithCacheKey(inv.i, "generate", cacheKey)
          /\ inv' = [v EXCEPT !.pc = "generate", !.urlExists = Append(@, "true")]
     ELSE /\ inv' = NotInCache(v)
          /\ UNCHANGED <<calls, urlsOnHold>>
  /\ UNCHANGED <<isrConfig, now, store, adds, reqs, execs>>

\* cache.has fails, or its timer fires: .catch returns false
HasReject ==
  /\ inv.pc = "has"
  /\ inv' = NotInCache([inv EXCEPT !.race = Settle(@, "error")])
  /\ UNCHANGED <<isrConfig, now, urlsOnHold, store, calls, adds, reqs, execs>>

HasTimeout ==
  /\ inv.pc = "has"
  /\ TimerDue(inv.race)
  /\ inv' = NotInCache([inv EXCEPT !.race = Settle(@, "timeout")])
  /\ UNCHANGED <<isrConfig, now, urlsOnHold, store, calls, adds, reqs, execs>>

\* ------------------------------------------- executeWithTimeout on its own
\* st: idle, racing, done;  op: the operation: running, value, error
\* result: none, value, opError, timeoutError;  thrown: the message of the error
\* due: start + timeoutMs;  opAt / settledAt: when the operation / the race ended
Execs == 1..MaxExecs
Messages == {"Timeout error", "Timeout while adding to cache"}

IdleExec ==
  [st |-> "idle", race |-> NoRace, message |-> "", op |-> "running",
   result |-> "none", thrown |-> "", due |-> 0, opAt |-> 0, settledAt |-> 0]

\* return (await Promise.race([promise, timeoutPromise])), then finally
Settled(x, result, thrown) ==
  [x EXCEPT !.st = "done", !.result = result, !.thrown = thrown,
            !.settledAt = now,
            !.race = Settle(@, IF result = "value" THEN "value"
                               ELSE IF result = "opError" THEN "error"
                               ELSE "timeout")]

\* executeWithTimeout(promise, timeoutMs, message); a promise that is settled
\* already wins the race at once
Execute(e, timeoutMs, message, op) ==
  /\ execs[e].st = "idle"
  /\ LET x == [IdleExec EXCEPT !.st = "racing", !.message = message, !.op = op,
                               !.due = now + timeoutMs, !.opAt = now,
                               !.race = executeWithTimeout(timeoutMs)]
     IN execs' = [execs EXCEPT ![e] =
                    IF op = "value" THEN Settled(x, "value", "")
                    ELSE IF op = "error" THEN Settled(x, "opError", "operation failed")
                    ELSE x]
  /\ UNCHANGED <<isrConfig, now, urlsOnHold, store, calls, adds, reqs, inv>>

OpResolve(e) ==
  /\ execs[e].st = "racing"
  /\ execs' = [execs EXCEPT ![e] =
                 Settled([execs[e] EXCEPT !.op = "value", !.opAt = now], "value", "")]
  /\ UNCHANGED <<isrConfig, now, urlsOnHold, store, calls, adds, reqs, inv>>

OpReject(e) ==
  /\ execs[e].st = "racing"
  /\ execs' = [execs EXCEPT ![e] =
                 Settled([execs[e] EXCEPT !.op = "error", !.opAt = now],
                         "opError", "operation failed")]
  /\ UNCHANGED <<isrConfig, now, urlsOnHold, store, calls, adds, reqs, inv>>

\* the timer callback: rejectTimeout(new Error(message))
ExecTimeout(e) ==
  /\ execs[e].st = "racing"
  /\ TimerDue(execs[e].race)
  /\ execs' = [execs EXCEPT ![e] =
                 Settled(execs[e], "timeoutError", execs[e].message)]
  /\ UNCHANGED <<isrConfig, now, urlsOnHold, store, calls, adds, reqs, inv>>

\* the operation is not cancelled: it ends after the race was lost
OpFinishLate(e, op) ==
  /\ execs[e].st = "done"
  /\ execs[e].op = "running"
  /\ execs' = [execs EXCEPT ![e].op = op, ![e].opAt = now]
  /\ UNCHANGED <<isrConfig, now, urlsOnHold, store, calls, adds, reqs, inv>>

\* ------------------------------------------------------------------ the clock
Tick ==
  /\ now < MaxNowSec * MsPerSec
  /\ \A c \in Slots : /\ ~TimerDue(calls[c].race)
                      /\ ~TimerDue(adds[c].race)
                      /\ ~TimerDue(reqs[c].race)
  /\ ~TimerDue(inv.race)
  /\ \A e \in Execs : ~TimerDue(execs[e].race)
  /\ now' = now + MsPerSec
  /\ UNCHANGED <<isrConfig, urlsOnHold, store, calls, adds, reqs, inv, execs>>

\* ------------------------------------------------------------ specifications
\* isrConfig.variants: no variant, one, or two in either declaration order
VariantLists ==
  {<<>>} \cup {<<v>> : v \in Variants} \cup
  {<<v, w>> : v \in {x \in Variants : x.identifier = "v1" /\ x.simulateVariant},
              w \in {x \in Variants : x.identifier = "v2" /\ ~x.simulateVariant}} \cup
  {<<w, v>> : v \in {x \in Variants : x.identifier = "v1" /\ x.simulateVariant},
              w \in {x \in Variants : x.identifier = "v2" /\ ~x.simulateVariant}}

Configs ==
  [commonEngine : BOOLEAN,
   skipCachingOnHttpError : BOOLEAN,
   defaultRevalidate : Revalidates,
   nonBlockingRender : BOOLEAN,
   backgroundRevalidation : BOOLEAN,
   buildId : {"null", "b1"},
   invalidateSecretToken : Secrets,
   variants : VariantLists,
   allowedQueryParams : AllowedQueryParams,
   cacheKeyGenerator : {"default", "custom"}]

\* the configuration without variants, query parameter list or key generator
PlainKeys(cfg) ==
  /\ cfg.variants = <<>>
  /\ cfg.allowedQueryParams = {}
  /\ cfg.cacheKeyGenerator = "default"

\* the state after the constructors, before any request
Constructed(configs, stores) ==
  /\ isrConfig \in configs
  /\ now = 0
  /\ urlsOnHold = <<>>
  /\ store \in stores
  /\ calls = [c \in Slots |-> IdleCall]
  /\ adds = [c \in Slots |-> NoAdd]
  /\ reqs = [c \in Slots |-> IdleReq]
  /\ inv = IdleInv
  /\ execs = [e \in Execs |-> IdleExec]

EmptyStore == [k \in CacheKeys |-> NoEntry]

Generation ==
  \/ \E c \in Slots : RenderReject(c)
  \/ \E c \in Slots : RenderTimeout(c)
  \/ \E c \in Slots, ok \in BOOLEAN : RenderFinishLate(c, ok)
  \/ \E c \in Slots, reported \in Revalidates, hasErrors \in BOOLEAN, postOk \in BOOLEAN :
        RenderResolve(c, reported, hasErrors, postOk)
  \/ \E c \in Slots : AddResolve(c)
  \/ \E c \in Slots : AddReject(c)
  \/ \E c \in Slots : AddTimeout(c)
  \/ \E c \in Slots, lands \in BOOLEAN : AddFinishLate(c, lands)
  \/ Tick

\* Spec: concurrent generateWithCacheKey calls for one cache key, under every
\* configuration of the renderer, the error policy, the default revalidate
\* value and the blocking mode.
Init ==
  Constructed({cfg \in Configs : /\ cfg.backgroundRevalidation
                                 /\ cfg.buildId = "b1"
                                 /\ cfg.invalidateSecretToken = "s"
                                 /\ PlainKeys(cfg)},
              {EmptyStore})

Next ==
  \/ \E c \in Calls, mode \in Modes, k \in HotKeys : Call(c, mode, k)
  \/ Generation

Spec == Init /\ [][Next]_vars

\* SpecServe: concurrent serveFromCache and render requests for one cache key
\* over a store that holds an entry of any build and revalidate value.
ServeStores ==
  {[k \in CacheKeys |-> IF k \in HotKeys THEN e ELSE NoEntry] :
     e \in {NoEntry} \cup
           {CacheData(0, r, b, 0) :
              r \in {{n} : n \in {0 - MaxNegRevalidate} \cup 0..MaxRevalidate},
              b \in BuildIds}}

InitServe ==
  Constructed({cfg \in Configs : /\ cfg.commonEngine
                                 /\ cfg.skipCachingOnHttpError
                                 /\ ~cfg.nonBlockingRender
                                 /\ cfg.defaultRevalidate \in {Absent, {0}}
                                 /\ cfg.invalidateSecretToken = "s"
                                 /\ PlainKeys(cfg)},
              ServeStores)

NextServe ==
  \/ \E p \in Calls, k \in HotKeys : serveFromCache(p, k)
  \/ \E p \in Calls : GetResolve(p)
  \/ \E p \in Calls : GetReject(p)
  \/ \E p \in Calls : GetTimeout(p)
  \/ \E p \in Calls, k \in HotKeys : render(p, k)
  \/ Generation

SpecServe == InitServe /\ [][NextServe]_vars

\* SpecInvalidate: one invalidate request, any token and url list, over a store
\* that holds some of the keys.
UrlLists == UNION {[1..n -> Paths] : n \in 0..MaxCalls}

InvalidateStores ==
  {[k \in CacheKeys |-> IF k \in present THEN CacheData(0, {1}, "b1", 0) ELSE NoEntry] :
     present \in SUBSET Paths}

InitInvalidate ==
  Constructed({cfg \in Configs : /\ cfg.commonEngine
                                 /\ cfg.backgroundRevalidation
                                 /\ cfg.defaultRevalidate \in {Absent, {1}}
                                 /\ cfg.buildId = "b1"
                                 /\ PlainKeys(cfg)},
              InvalidateStores)

NextInvalidate ==
  \/ \E token \in Tokens, urls \in UrlLists : invalidate(token, TRUE, urls)
  \/ \E token \in Tokens : invalidate(token, FALSE, <<>>)
  \/ HasResolve
  \/ HasReject
  \/ HasTimeout
  \/ Generation

SpecInvalidate == InitInvalidate /\ [][NextInvalidate]_vars

\* SpecVariants: one authorised invalidate request for one or two urls, under
\* every list of variants, over a store that holds some of the urls as keys and
\* all or none of the keys of the variants.
VariantUrlLists == UNION {[1..n -> Paths] : n \in 1..MaxCalls}

VariantStores ==
  {[k \in CacheKeys |->
      IF k \in present \/ (generated /\ k \notin Urls)
      THEN CacheData(0, {1}, "b1", 0) ELSE NoEntry] :
     present \in SUBSET Paths, generated \in BOOLEAN}

InitVariants ==
  Constructed({cfg \in Configs : /\ cfg.commonEngine
                                 /\ cfg.skipCachingOnHttpError
                                 /\ ~cfg.nonBlockingRender
                                 /\ cfg.backgroundRevalidation
                                 /\ cfg.defaultRevalidate = {1}
                                 /\ cfg.buildId = "b1"
                                 /\ cfg.invalidateSecretToken = "s"
                                 /\ cfg.allowedQueryParams = {}
                                 /\ cfg.cacheKeyGenerator = "default"},
              VariantStores)

NextVariants ==
  \/ \E urls \in VariantUrlLists :
        /\ Len(urls) * (1 + Len(isrConfig.variants)) <= MaxItems
        /\ invalidate("s", TRUE, urls)
  \/ HasResolve
  \/ HasReject
  \/ HasTimeout
  \/ \E c \in Slots : RenderReject(c)
  \/ \E c \in Slots : RenderTimeout(c)
  \/ \E c \in Slots, ok \in BOOLEAN : RenderFinishLate(c, ok)
  \/ \E c \in Slots, hasErrors \in BOOLEAN :
        RenderResolve(c, Absent, hasErrors, TRUE)
  \/ \E c \in Slots : AddResolve(c)
  \/ \E c \in Slots : AddReject(c)
  \/ \E c \in Slots : AddTimeout(c)
  \/ \E c \in Slots : AddFinishLate(c, TRUE)
  \/ Tick

SpecVariants == InitVariants /\ [][NextVariants]_vars

\* SpecKeys: one authorised invalidate request for one url, and one
\* serveFromCache request (in the last slot) for a url in a variant, under every
\* list of variants, query parameter list and key generator, over a store that
\* holds every key or none.
KeyStores ==
  {[k \in CacheKeys |-> IF full THEN CacheData(0, {0}, "b1", 0) ELSE NoEntry] :
     full \in BOOLEAN}

InitKeys ==
  Constructed({cfg \in Configs : /\ cfg.commonEngine
                                 /\ cfg.skipCachingOnHttpError
                                 /\ ~cfg.nonBlockingRender
                                 /\ cfg.backgroundRevalidation
                                 /\ cfg.defaultRevalidate = {0}
                                 /\ cfg.buildId = "b1"
                                 /\ cfg.invalidateSecretToken = "s"},
              KeyStores)

NextKeys ==
  \/ \E url \in Urls :
        /\ 1 + Len(isrConfig.variants) < MaxItems
        /\ invalidate("s", TRUE, <<url>>)
  \/ \E url \in Urls :
        \E variant \in {NoVariant} \cup
                        {isrConfig.variants[j] : j \in 1..Len(isrConfig.variants)} :
          serveFromCache(MaxItems,
                         getCacheKey(url, isrConfig.allowedQueryParams, variant))
  \/ GetResolve(MaxItems)
  \/ GetReject(MaxItems)
  \/ HasResolve
  \/ HasReject
  \/ \E c \in Slots : RenderReject(c)
  \/ \E c \in Slots : RenderResolve(c, Absent, FALSE, TRUE)
  \/ \E c \in Slots : AddResolve(c)
  \/ \E c \in Slots : AddReject(c)

SpecKeys == InitKeys /\ [][NextKeys]_vars

\* SpecBackground: concurrent serveFromCache requests for one cache key whose
\* entry is or goes stale, with background revalidation, blocking or not.  Every
\* operation that was started ends: a pending race settles (by its operation
\* or, at the latest, by its timer), and an operation that lost its race ends
\* later on its own.
\* The entry was written when the clock started, or one rendering timeout
\* before that (so that it is stale from the start).
BackgroundStores ==
  {[k \in CacheKeys |->
      IF k \in HotKeys THEN CacheData(0, {1}, "b1", createdAt) ELSE NoEntry] :
     createdAt \in {0, 0 - renderingTimeoutMs}}

InitBackground ==
  Constructed({cfg \in Configs : /\ cfg.commonEngine
                                 /\ cfg.skipCachingOnHttpError
                                 /\ cfg.backgroundRevalidation
                                 /\ cfg.defaultRevalidate \in {Absent, {1}}
                                 /\ cfg.buildId = "b1"
                                 /\ cfg.invalidateSecretToken = "s"
                                 /\ PlainKeys(cfg)},
              BackgroundStores)

NextBackground ==
  \/ \E p \in Calls, k \in HotKeys : serveFromCache(p, k)
  \/ \E p \in Calls : GetResolve(p)
  \/ \E p \in Calls : GetReject(p)
  \/ \E p \in Calls : GetTimeout(p)
  \/ Generation

\* the race of renderUrl, and of addToCache, settles
RenderSettles(c) ==
  \/ RenderReject(c)
  \/ RenderTimeout(c)
  \/ \E reported \in Revalidates, hasErrors \in BOOLEAN, postOk \in BOOLEAN :
        RenderResolve(c, reported, hasErrors, postOk)

AddSettles(c) == AddResolve(c) \/ AddReject(c) \/ AddTimeout(c)

FairBackground ==
  \A c \in Calls :
    /\ WF_vars(RenderSettles(c))
    /\ WF_vars(\E ok \in BOOLEAN : RenderFinishLate(c, ok))
    /\ WF_vars(AddSettles(c))
    /\ WF_vars(\E lands \in BOOLEAN : AddFinishLate(c, lands))

SpecBackground == InitBackground /\ [][NextBackground]_vars /\ FairBackground

\* SpecTimeout: executeWithTimeout calls with the two timeouts the handler uses,
\* over operations that are settled already, settle in time, late or never.
InitTimeout ==
  Constructed({cfg \in Configs : /\ cfg.commonEngine
                                 /\ cfg.skipCachingOnHttpError
                                 /\ ~cfg.nonBlockingRender
                                 /\ cfg.backgroundRevalidation
                                 /\ cfg.defaultRevalidate = Absent
                                 /\ cfg.buildId = "b1"
                                 /\ cfg.invalidateSecretToken = "s"
                                 /\ PlainKeys(cfg)},
              {EmptyStore})

NextTimeout ==
  \/ \E e \in Execs, timeoutMs \in {cacheTimeoutMs, renderingTimeoutMs},
        message \in Messages, op \in {"running", "value", "error"} :
        Execute(e, timeoutMs, message, op)
  \/ \E e \in Execs : OpResolve(e)
  \/ \E e \in Execs : OpReject(e)
  \/ \E e \in Execs : ExecTimeout(e)
  \/ \E e \in Execs, op \in {"value", "error"} : OpFinishLate(e, op)
  \/ Tick

SpecTimeout == InitTimeout /\ [][NextTimeout]_vars

\* ===================================================================== claims
\* a mode 'regenerate' call that pushed its key and has not returned yet
Holding(c) == calls[c].mode = "regenerate" /\ calls[c].st \in {"render", "add"}

\* C1: of the mode 'regenerate' calls for one cache key at most one is between
\* its push and its return (so at most one renderer runs under the hold), its
\* key is in urlsOnHold exactly once, and every call made while the key was on
\* hold has returned at once with no result and has not called the renderer.
C1_SingleFlight ==
  /\ \A c1, c2 \in Calls :
       (c1 # c2 /\ Holding(c1) /\ Holding(c2)) => calls[c1].key # calls[c2].key
  /\ \A c \in Calls :
       Holding(c) =>
         Cardinality({i \in DOMAIN urlsOnHold : urlsOnHold[i] = calls[c].key}) = 1
  /\ \A c \in Calls :
       (calls[c].mode = "regenerate" /\ calls[c].onHoldAtCall) =>
         /\ calls[c].st = "done"
         /\ calls[c].res = "void"
         /\ calls[c].html = 0
         /\ ~calls[c].rendering

C1_Witness ==
  \E c1, c2 \in Calls :
    /\ c1 # c2
    /\ Holding(c1) /\ calls[c1].st = "render"
    /\ calls[c2].mode = "regenerate" /\ calls[c2].key = calls[c1].key
    /\ calls[c2].res = "void"

\* C2: a mode 'regenerate' call that pushed its cache key has removed it when it
\* has returned or thrown: the key is then on hold only if another call holds it.
C2_ReleasedOnEveryExit ==
  \A c \in Calls :
    (calls[c].st = "done" /\ calls[c].pushed) =>
      \/ ~(\E i \in DOMAIN urlsOnHold : urlsOnHold[i] = calls[c].key)
      \/ \E c2 \in Calls : c2 # c /\ Holding(c2) /\ calls[c2].key = calls[c].key

\* a revalidate value that is a number and not negative
NonNegative(revalidate) == revalidate # Absent /\ \A n \in revalidate : n >= 0

\* C3: no cache.add is called with, and no entry is stored with, a revalidate
\* value that is negative or absent.
C3_NegativeOrAbsentNeverWritten ==
  /\ \A c \in Calls :
       adds[c].st \in {"pending", "late"} => NonNegative(adds[c].revalidate)
  /\ \A k \in CacheKeys : store[k].present => NonNegative(store[k].revalidate)

\* the entry that serveFromCache call p got from cache.get
Got(p) == reqs[p].cacheData

\* C4: serveFromCache, having read an entry that carries a build id other than
\* isrConfig.buildId, has called next() once, sent nothing and started no
\* regeneration.
C4_OtherBuildNeverServed ==
  \A p \in Calls :
    (Got(p).present /\ Got(p).buildId # "null"
       /\ Got(p).buildId # isrConfig.buildId) =>
      /\ reqs[p].pc = "done"
      /\ reqs[p].nexts = 1
      /\ reqs[p].sends = 0
      /\ ~reqs[p].regenerated
      /\ calls[p].st = "idle"

C4_Witness ==
  \E p \in Calls :
    /\ Got(p).present /\ Got(p).buildId = "b2" /\ isrConfig.buildId = "b1"
    /\ reqs[p].nexts = 1

\* C5: for an entry of the running build with revalidate n > 0, a serve at age
\* <= n seconds has sent the stored markup and called no regeneration; a serve
\* at age > n seconds has called generateWithCacheKey(mode 'regenerate') for
\* the key.
C5_ExpireAfter ==
  \A p \in Calls : \A n \in Got(p).revalidate :
    (Got(p).present /\ Got(p).buildId = isrConfig.buildId /\ n > 0) =>
      IF reqs[p].readAt - Got(p).createdAt <= n * MsPerSec
      THEN /\ reqs[p].pc = "done"
           /\ reqs[p].sends = 1 /\ reqs[p].nexts = 0
           /\ reqs[p].sentHtml = Got(p).html
           /\ ~reqs[p].regenerated
           /\ calls[p].st = "idle"
      ELSE /\ reqs[p].regenerated
           /\ calls[p].st # "idle"
           /\ calls[p].mode = "regenerate"
           /\ calls[p].key = reqs[p].key

C5_Witness ==
  \E p, q \in Calls : \E n \in Got(p).revalidate :
    /\ n > 0 /\ Got(p).present /\ Got(p).buildId = isrConfig.buildId
    /\ reqs[p].readAt - Got(p).createdAt = n * MsPerSec
    /\ reqs[p].sends = 1 /\ ~reqs[p].regenerated
    /\ Got(q) = Got(p)
    /\ reqs[q].readAt - Got(q).createdAt > n * MsPerSec
    /\ reqs[q].regenerated

\* a serve of an entry of the running build with revalidate 0 has sent the
\* stored markup and called no regeneration, whatever the entry's age
ForeverServed ==
  \A p \in Calls :
    (Got(p).present /\ Got(p).buildId = isrConfig.buildId
       /\ Got(p).revalidate = {0}) =>
      /\ reqs[p].pc = "done"
      /\ reqs[p].sends = 1 /\ reqs[p].nexts = 0
      /\ reqs[p].sentHtml = Got(p).html
      /\ ~reqs[p].regenerated
      /\ calls[p].st = "idle"

ForeverEntry(k) ==
  /\ store[k].present
  /\ store[k].revalidate = {0}
  /\ store[k].buildId = isrConfig.buildId

\* the cache.add of slot c, for key k, writes the store in this step
Landing(c, k) ==
  /\ adds[c].st \in {"pending", "late"}
  /\ adds[c].key = k
  /\ adds'[c].st = "done"

\* C6 as stated: ForeverServed, and a stored revalidate-0 entry changes only in
\* the cache.add of a mode 'generate' rebuild.
C6_Original ==
  /\ []ForeverServed
  /\ [][\A k \in CacheKeys :
          (ForeverEntry(k) /\ store'[k] # store[k]) =>
            \E c \in Calls : Landing(c, k) /\ calls[c].mode = "generate"]_vars

\* C6 amended: ForeverServed, and a stored revalidate-0 entry changes only in
\* the cache.add of a mode 'generate' rebuild, or of a mode 'regenerate' attempt
\* that a serve of an expiring (revalidate > 0) entry of the key had started.
C6_ForeverUntilRebuilt ==
  /\ []ForeverServed
  /\ [][\A k \in CacheKeys :
          (ForeverEntry(k) /\ store'[k] # store[k]) =>
            \E c \in Calls :
              /\ Landing(c, k)
              /\ \/ calls[c].mode = "generate"
                 \/ /\ calls[c].mode = "regenerate"
                    /\ reqs[c].regenerated
                    /\ reqs[c].key = k
                    /\ \E n \in Got(c).revalidate : n > 0]_vars

C6_Witness ==
  \E p \in Calls :
    /\ Got(p).present /\ Got(p).revalidate = {0}
    /\ Got(p).buildId = isrConfig.buildId
    /\ reqs[p].readAt - Got(p).createdAt >= 2 * MsPerSec
    /\ reqs[p].sends = 1

\* C7: a generateWithCacheKey call never awaits the renderer past the configured
\* rendering timeout, whichever renderer is configured.
C7_RenderFailsAtDeadline ==
  \A c \in Calls : calls[c].st = "render" => now <= calls[c].due

\* C8: an operation that ends before the deadline decides the result (its value,
\* or its own error); one that has not ended by the deadline gives the timeout
\* error with the caller's message; the timeout error never comes before the
\* deadline, the race is never open past it, and a result never changes.
C8_ExecuteWithTimeout ==
  /\ [](\A e \in Execs :
          LET x == execs[e] IN
          /\ x.st = "racing" => (x.op = "running" /\ now <= x.due)
          /\ x.st = "done" =>
               /\ (x.op = "value" /\ x.opAt < x.due) =>
                    (x.result = "value" /\ x.thrown = "")
               /\ (x.op = "error" /\ x.opAt < x.due) =>
                    (x.result = "opError" /\ x.thrown = "operation failed")
               /\ (x.op = "running" \/ x.opAt > x.due) =>
                    (x.result = "timeoutError" /\ x.thrown = x.message)
               /\ x.result = "timeoutError" => x.settledAt >= x.due
               /\ x.result \in {"value", "opError", "timeoutError"})
  /\ [][\A e \in Execs :
          execs[e].st = "done" =>
            (execs'[e].result = execs[e].result /\ execs'[e].thrown = execs[e].thrown)]_vars

C8_Witness ==
  \E e1, e2 \in Execs :
    /\ execs[e1].result = "timeoutError" /\ execs[e1].op = "value"
    /\ execs[e1].opAt > execs[e1].due
    /\ execs[e2].result = "value" /\ execs[e2].opAt > 0
    /\ execs[e2].opAt < execs[e2].due

\* C9: a timer is pending only while its race is open: once renderUrl's race or
\* addToCache's executeWithTimeout has settled (value, error or timeout), the
\* timer it scheduled is gone.
C9_NoTimerLeft ==
  \A c \in Calls :
    /\ calls[c].race.timer =>
         (calls[c].st = "render" /\ calls[c].race.outcome = "pending")
    /\ adds[c].race.timer =>
         (adds[c].st = "pending" /\ adds[c].race.outcome = "pending")

C9_Witness ==
  \E c1, c2 \in Calls :
    /\ isrConfig.commonEngine
    /\ calls[c1].race.outcome = "timeout"
    /\ calls[c2].race.outcome = "value"
    /\ adds[c2].race.outcome = "error"

\* invalidate has called neither cache.has nor the renderer nor cache.add
NoStoreOperation ==
  /\ inv.hasCalls = 0
  /\ \A c \in Calls : calls[c].st = "idle" /\ adds[c].st = "none"
  /\ \A k \in CacheKeys : store[k].present => store[k].html = 0

\* C10: a wrong token gives the response 'Your secret token is wrong!!!', the
\* right token with no or an empty url list gives the validation error, and in
\* both cases cache.has, cache.add and the renderer were not called.
C10_Unauthorized ==
  inv.pc # "idle" =>
    /\ inv.token # isrConfig.invalidateSecretToken =>
         /\ inv.pc = "done"
         /\ Message(inv.response) = "Your secret token is wrong!!!"
         /\ NoStoreOperation
    /\ (inv.token = isrConfig.invalidateSecretToken
          /\ (~inv.hasUrls \/ Len(inv.urlsToInvalidate) = 0)) =>
         /\ inv.pc = "done"
         /\ inv.response = "noUrls"
         /\ NoStoreOperation

C10_Witness ==
  /\ inv.response = "wrongToken"
  /\ inv.token = "x" /\ isrConfig.invalidateSecretToken = "s"
  /\ Len(inv.urlsToInvalidate) > 0

\* the item at place i of the list is the one of url u in variant j (0: default)
UrlOfItem(i) ==
  inv.urlsToInvalidate[((i - 1) \div (1 + Len(isrConfig.variants))) + 1]

VariantOfItem(i) ==
  LET j == (i - 1) % (1 + Len(isrConfig.variants))
  IN IF j = 0 THEN NoVariant ELSE isrConfig.variants[j]

\* C11: getVariantUrlsToInvalidate gives U*(1+V) items, url by url in input
\* order, the default item (identity simulator) first and then the variants in
\* declaration order with their cache keys and simulators; the finished
\* invalidate has called cache.has once per item, has put every key that was
\* not found in notInCache without rendering it, and has rendered every key
\* that was found, once, in mode 'generate'.
C11_VariantExpansion ==
  LET list == inv.variantUrlsToInvalidate IN
  /\ inv.pc \in {"has", "generate"} \/ inv.response = "success" =>
       /\ Len(list) = Len(inv.urlsToInvalidate) * (1 + Len(isrConfig.variants))
       /\ \A i \in 1..Len(list) :
            /\ list[i].url = UrlOfItem(i)
            /\ VariantOfItem(i) = NoVariant =>
                 list[i].reqSimulator = "defaultVariant"
            /\ VariantOfItem(i) # NoVariant =>
                 /\ list[i].cacheKey =
                      getCacheKey(UrlOfItem(i), isrConfig.allowedQueryParams,
                                  VariantOfItem(i))
                 /\ list[i].reqSimulator =
                      (IF VariantOfItem(i).simulateVariant
                       THEN VariantOfItem(i).identifier ELSE "defaultVariant")
  /\ inv.response = "success" =>
       /\ inv.hasCalls = Len(list)
       /\ Len(inv.urlExists) = Len(list)
       /\ Len(inv.notInCache) =
            Cardinality({i \in 1..Len(list) : inv.urlExists[i] # "true"})
       /\ \A i \in 1..Len(list) :
            IF inv.urlExists[i] = "true"
            THEN /\ calls[i].st = "done"
                 /\ calls[i].mode = "generate"
                 /\ calls[i].key = list[i].cacheKey
                 /\ calls[i].html = i
                 /\ ~Includes(inv.notInCache, list[i].cacheKey)
                      \/ \E i2 \in 1..Len(list) :
                            /\ list[i2].cacheKey = list[i].cacheKey
                            /\ inv.urlExists[i2] # "true"
            ELSE /\ calls[i].st = "idle"
                 /\ Includes(inv.notInCache, list[i].cacheKey)

C11_Witness ==
  /\ inv.response = "success"
  /\ Len(inv.urlsToInvalidate) = 2
  /\ inv.urlsToInvalidate[1] # inv.urlsToInvalidate[2]
  /\ Len(isrConfig.variants) = 1
  /\ Len(inv.variantUrlsToInvalidate) = 4
  /\ inv.urlExists = <<"false", "true", "error", "true">>
  /\ calls[2].res = "html" /\ calls[4].res = "throw"

\* p is a serveFromCache request (render requests call no cache.get)
Serving(p) == reqs[p].race.outcome # "none"

\* serveFromCache call p awaited a regeneration of its own (not a skipped one)
AwaitedGenerate(p) ==
  /\ Serving(p) /\ reqs[p].regenerated
  /\ ~isrConfig.backgroundRevalidation
  /\ calls[p].res # "void"

\* a step of serveFromCache call p failed: the lookup failed, timed out or
\* missed, or the awaited regeneration threw
FailedInside(p) ==
  \/ reqs[p].race.outcome \in {"error", "timeout"}
  \/ reqs[p].race.outcome = "value" /\ ~Got(p).present
  \/ AwaitedGenerate(p) /\ calls[p].res = "throw"

\* C12: a serveFromCache call in which a step failed has ended with one next()
\* and without res.send.
C12_FailureFallsThrough ==
  \A p \in Calls :
    (reqs[p].pc = "done" /\ FailedInside(p)) =>
      /\ reqs[p].nexts = 1
      /\ reqs[p].sends = 0

\* C13: with background revalidation disabled, a serve of a stale entry waits
\* for its regeneration; markup returned by it is what is sent, and when it
\* throws the call ends with next() and sends nothing.
C13_ForegroundRevalidation ==
  \A p \in Calls :
    AwaitedGenerate(p) =>
      /\ calls[p].mode = "regenerate" /\ calls[p].key = reqs[p].key
      /\ calls[p].st # "done" => (reqs[p].pc = "generate" /\ reqs[p].sends = 0)
      /\ calls[p].res \in {"html", "htmlErrors"} =>
           /\ reqs[p].pc = "done"
           /\ reqs[p].sends = 1 /\ reqs[p].nexts = 0
           /\ reqs[p].sentHtml = calls[p].html
      /\ calls[p].res = "throw" =>
           /\ reqs[p].pc = "done"
           /\ reqs[p].nexts = 1 /\ reqs[p].sends = 0

\* C14: with background revalidation enabled, the serve of a stale entry has
\* started generateWithCacheKey(mode 'regenerate') and has sent the stored
\* markup in the same step, whatever state the regeneration is in, and what it
\* sent is not the markup of the regeneration.
C14_BackgroundRevalidation ==
  \A p \in Calls :
    (Serving(p) /\ reqs[p].regenerated /\ isrConfig.backgroundRevalidation) =>
      /\ reqs[p].pc = "done"
      /\ reqs[p].sends = 1 /\ reqs[p].nexts = 0
      /\ reqs[p].sentHtml = Got(p).html
      /\ calls[p].st # "idle"
      /\ calls[p].mode = "regenerate" /\ calls[p].key = reqs[p].key
      /\ calls[p].res # "void" => reqs[p].sentHtml # calls[p].html

C14_Witness ==
  \E p \in Calls :
    /\ Serving(p) /\ reqs[p].regenerated /\ isrConfig.backgroundRevalidation
    /\ calls[p].st = "render"
    /\ reqs[p].sends = 1

\* C15: when the page reports errors and skipCachingOnHttpError is set, the
\* call returns the markup with the errors, calls no cache.add and leaves the
\* store as it is, and its markup is never stored; when the option is off, the
\* page is handed to cache.add exactly when its revalidate value says so.
C15_SkipCachingOnError ==
  /\ [](\A c \in Calls :
          calls[c].res = "htmlErrors" =>
            /\ isrConfig.skipCachingOnHttpError
            /\ calls[c].st = "done" /\ calls[c].html = c
            /\ adds[c].st = "none"
            /\ \A k \in CacheKeys : store[k].present => store[k].html # c)
  /\ [][\A c \in Calls, reported \in Revalidates :
          RenderResolve(c, reported, TRUE, TRUE) =>
            LET revalidate == ResolveRevalidate(reported, isrConfig.defaultRevalidate)
            IN IF isrConfig.skipCachingOnHttpError
               THEN /\ calls'[c].res = "htmlErrors"
                    /\ calls'[c].html = c
                    /\ adds' = adds
                    /\ store' = store
               ELSE /\ calls'[c].res # "htmlErrors"
                    /\ (revalidate = {-1} \/ revalidate = Absent) =>
                         (adds' = adds /\ calls'[c].res = "html")
                    /\ ~(revalidate = {-1} \/ revalidate = Absent) =>
                         /\ adds'[c].st = "pending"
                         /\ adds'[c].key = calls[c].key
                         /\ adds'[c].html = c
                         /\ adds'[c].revalidate = revalidate]_vars

C15_Witness ==
  \E c, c2 \in Calls :
    /\ c # c2
    /\ calls[c].res = "htmlErrors"
    /\ store[calls[c].key].present
    /\ store[calls[c].key].html = c2

\* the cache.add of call c failed or timed out
WriteFailed(c) == adds[c].race.outcome \in {"error", "timeout"}

\* C16: a call whose cache.add failed or timed out has returned its rendered
\* markup and has not thrown, with the write awaited or not.
C16_WriteFailureIsNotFatal ==
  \A c \in Calls :
    WriteFailed(c) =>
      /\ calls[c].st = "done"
      /\ calls[c].res = "html"
      /\ calls[c].html = c
      /\ calls[c].err = "none"

C16_Witness ==
  \E c \in Calls :
    /\ ~isrConfig.nonBlockingRender
    /\ adds[c].race.outcome = "timeout"
    /\ calls[c].res = "html"

\* C17: a mode 'generate' call has rendered, on hold or not, and has pushed
\* nothing; no step of a mode 'generate' call (its start, its return, its
\* throw) changes urlsOnHold.
C17_GenerateNeverDeduplicates ==
  /\ [](\A c \in Calls :
          (calls[c].st # "idle" /\ calls[c].mode = "generate") =>
            /\ calls[c].res # "void"
            /\ calls[c].html = c
            /\ ~calls[c].pushed)
  /\ [][\A c \in Calls :
          (calls'[c] # calls[c] /\ calls'[c].mode = "generate") =>
            urlsOnHold' = urlsOnHold]_vars

C17_Witness ==
  \E c1, c2 \in Calls :
    /\ calls[c1].mode = "generate" /\ calls[c1].onHoldAtCall
    /\ calls[c1].st = "done" /\ calls[c1].res = "html"
    /\ Holding(c2) /\ calls[c2].key = calls[c1].key
    /\ Includes(urlsOnHold, calls[c1].key)

\* the report of a finished invalidate: the processed keys and the three lists
Processed == {inv.items[i] : i \in 1..Len(inv.items)}
ReportedNotInCache == {inv.notInCache[i] : i \in 1..Len(inv.notInCache)}
ReportedInvalidated == {inv.invalidatedUrls[i] : i \in 1..Len(inv.invalidatedUrls)}

\* invalidatedUrls is the list of processed keys, in order, without those in
\* notInCache and those with errors
InvalidatedIsTheRest ==
  /\ ReportedInvalidated = (Processed \ ReportedNotInCache) \ inv.urlWithErrors
  /\ Len(inv.invalidatedUrls) =
       Cardinality({i \in 1..Len(inv.items) :
                      /\ inv.items[i] \notin ReportedNotInCache
                      /\ inv.items[i] \notin inv.urlWithErrors})
  /\ ReportedNotInCache \subseteq Processed
  /\ inv.urlWithErrors \subseteq Processed

\* C18 as stated: in the report every processed key is in exactly one of
\* notInCache, urlWithErrors and invalidatedUrls.
C18_Original ==
  inv.response = "success" =>
    /\ InvalidatedIsTheRest
    /\ \A k \in Processed :
         Cardinality({l \in {"notInCache", "urlWithErrors", "invalidatedUrls"} :
                        \/ l = "notInCache" /\ k \in ReportedNotInCache
                        \/ l = "urlWithErrors" /\ k \in inv.urlWithErrors
                        \/ l = "invalidatedUrls" /\ k \in ReportedInvalidated}) = 1

\* C18 amended: every processed key is in at least one of the three lists,
\* invalidatedUrls is the rest of the other two and shares no key with them,
\* and a key is in both notInCache and urlWithErrors only when the list of
\* items holds it more than once.
C18_ReportClassification ==
  inv.response = "success" =>
    /\ InvalidatedIsTheRest
    /\ Processed = ReportedNotInCache \cup inv.urlWithErrors \cup ReportedInvalidated
    /\ ReportedInvalidated \cap (ReportedNotInCache \cup inv.urlWithErrors) = {}
    /\ \A k \in ReportedNotInCache \cap inv.urlWithErrors :
         Cardinality({i \in 1..Len(inv.items) : inv.items[i] = k}) > 1

C18_Witness ==
  /\ inv.response = "success"
  /\ Cardinality(Processed) = Len(inv.items)
  /\ ReportedNotInCache # {}
  /\ inv.urlWithErrors # {}
  /\ ReportedInvalidated # {}

\* C19: a cache.has that failed or timed out has put its key in notInCache and
\* started no render; a rebuild that threw is recorded in urlWithErrors; the
\* loop is always at the item after the last one it finished, and the request
\* ends only with the report of all items, with status 'success'.
C19_BatchGoesOn ==
  LET n == Len(inv.urlExists) IN
  /\ \A i \in 1..n :
       inv.urlExists[i] \in {"error", "timeout"} =>
         /\ inv.items[i] \in ReportedNotInCache
         /\ calls[i].st = "idle"
  /\ \A i \in 1..n :
       (calls[i].res = "throw" /\ ~(inv.pc = "generate" /\ inv.i = i)) =>
         inv.items[i] \in inv.urlWithErrors
  /\ inv.pc = "has" => (inv.i = n + 1 /\ inv.i <= Len(inv.items))
  /\ inv.pc = "generate" =>
       (inv.i = n /\ inv.urlExists[n] = "true" /\ calls[n].st \in {"render", "add"})
  /\ (inv.pc = "done" /\ inv.response \notin {"wrongToken", "noUrls"}) =>
       /\ inv.response = "success"
       /\ n = Len(inv.items)

C19_Witness ==
  /\ inv.response = "success"
  /\ Len(inv.items) >= 3
  /\ inv.urlExists[1] = "timeout"
  /\ inv.urlExists[2] = "true" /\ calls[2].res = "throw"
  /\ inv.urlExists[3] = "true" /\ calls[3].res = "html"

\* C20: the cache key that invalidate checks, and rebuilds, for the item of a
\* url in a variant (the default one included) is the key getCacheKey gives
\* for that url, the configured allowedQueryParams and that variant, which is
\* the key serveFromCache and generate use for such a request.
C20_KeysFromTheGenerator ==
  \A i \in 1..Len(inv.variantUrlsToInvalidate) :
    LET cacheKey == getCacheKey(UrlOfItem(i), isrConfig.allowedQueryParams,
                                VariantOfItem(i))
    IN /\ inv.variantUrlsToInvalidate[i].cacheKey = cacheKey
       /\ inv.items[i] = cacheKey
       /\ calls[i].st # "idle" => calls[i].key = cacheKey

\* a caller is suspended on the promise of call c (await generate(), await
\* generateWithCacheKey()): its catch block runs when the promise rejects
Awaited(c) ==
  \/ reqs[c].pc \in {"generate", "render"}
  \/ inv.pc = "generate" /\ inv.i = c

\* the promise of call c rejects in this step (throw error, in the catch block)
Rejects(c) == calls[c].st \in {"render", "add"} /\ calls'[c].res = "throw"

\* a fire-and-forget cache.add that fails or times out touches nothing but its
\* own addToCache: the call, the requests and the store are as they were
WriteFailureCaught ==
  [][\A c \in Calls :
       (adds[c].st = "pending" /\ calls[c].st = "done"
          /\ adds'[c].race.outcome \in {"error", "timeout"}) =>
         UNCHANGED <<calls, reqs, inv, urlsOnHold, store>>]_vars

\* C21: whenever the promise of a generateWithCacheKey call rejects, a caller
\* is awaiting it (so the rejection is handled, never left unobserved), also
\* for the regeneration that serveFromCache starts without awaiting; and a
\* failing fire-and-forget cache write ends inside addToCache.
C21_SpawnedFailureCaptured ==
  /\ [][\A c \in Calls : Rejects(c) => Awaited(c)]_vars
  /\ WriteFailureCaught

\* serveFromCache call p started a regeneration of its own without awaiting it
Background(p) ==
  /\ Serving(p) /\ reqs[p].regenerated
  /\ isrConfig.backgroundRevalidation
  /\ calls[p].res # "void"

\* the renderer of call p ended with an error, in time or after the timeout
RendererFailed(p) == calls[p].rendered = "error"

\* renderUrl of call p gave up at the rendering timeout
RenderTimedOut(p) == calls[p].err = "timeout"

\* call p got its markup and handed nothing to cache.add: errors under the
\* skip policy, a revalidate value that is not cached, or a failed transform
NothingToWrite(p) ==
  /\ calls[p].st = "done"
  /\ adds[p].st = "none"
  /\ calls[p].res \in {"html", "htmlErrors"} \/ calls[p].err = "post"

\* the cache.add of call p failed, or was lost after its timeout
WriteRefused(p) ==
  /\ adds[p].st = "done"
  /\ adds[p].race.outcome \in {"error", "timeout"}
  /\ store[calls[p].key].html # p

\* the store holds the entry rendered by call p and the key is not on hold
UpdatedAndFree(p) ==
  /\ store[calls[p].key].present
  /\ store[calls[p].key].html = p
  /\ ~Includes(urlsOnHold, calls[p].key)

\* the store holds the entry rendered by call p, and call p has returned; the
\* key is on hold only by the push of another attempt
Updated(p) ==
  /\ store[calls[p].key].present
  /\ store[calls[p].key].html = p
  /\ calls[p].st = "done"
  /\ Includes(urlsOnHold, calls[p].key) =>
       \E q \in Calls \ {p} : calls[q].pushed /\ calls[q].key = calls[p].key

C23_ZeroIsWritten ==
  /\ [][\A c \in Calls, hasErrors \in BOOLEAN :
          (RenderResolve(c, {0}, hasErrors, TRUE) /\ ~SkipCachingOnError(hasErrors)) =>
            /\ adds'[c].st = "pending"
            /\ adds'[c].key = calls[c].key
            /\ adds'[c].html = c
            /\ adds'[c].revalidate = {0}]_vars
  /\ [][\A c \in Calls :
          (AddResolve(c) /\ adds[c].revalidate = {0}) =>
            store'[adds[c].key].revalidate = {0}]_vars

\* C24: a serveFromCache call that has ended has called res.send once or
\* next() once, and not both; while it runs it has called neither.
C24_ExactlyOneOutcome ==
  \A p \in Calls :
    Serving(p) =>
      /\ reqs[p].pc = "done" => reqs[p].sends + reqs[p].nexts = 1
      /\ reqs[p].pc # "done" => reqs[p].sends + reqs[p].nexts = 0

\* the store entry of key k was written by a rebuild of this invalidate call
Rebuilt(k) ==
  /\ store[k].present
  /\ \E j \in 1..Len(inv.items) : inv.items[j] = k /\ store[k].html = j

\* C25: when invalidate has given its report, every key in invalidatedUrls has
\* a store entry written by a rebuild of that call; a key whose rebuild was
\* not written is not in invalidatedUrls.
C25_InvalidatedMeansRewritten ==
  inv.response = "success" => \A k \in ReportedInvalidated : Rebuilt(k)

\* C26: with no secret configured (invalidateSecretToken null) every invalidate
\* request, whatever its token, ends with the response 'Your secret token is
\* wrong!!!' and has called neither cache.has nor the renderer nor cache.add.
C26_NoSecretNoInvalidation ==
  (inv.pc # "idle" /\ isrConfig.invalidateSecretToken = "null") =>
    /\ inv.pc = "done"
    /\ inv.response = "wrongToken"
    /\ NoStoreOperation

\* the cache.add of call c is under way: issued, and not yet ended
WriteInFlight(c) == adds[c].st \in {"pending", "late"}

\* the cache.add of call c for key k lands in this step
Lands(c, k) ==
  /\ WriteInFlight(c)
  /\ adds[c].key = k
  /\ store'[k] # store[k]
  /\ store'[k].html = c

\* C27: while the cache.add of a mode 'regenerate' attempt is under way the
\* attempt has not returned and holds its key; and when its write lands on an
\* entry written by another mode 'regenerate' attempt for the key, that other
\* attempt was the earlier one.
C27_WritesLandInOrder ==
  /\ [](\A c \in Calls :
          (calls[c].mode = "regenerate" /\ WriteInFlight(c)) =>
            /\ calls[c].st = "add"
            /\ Includes(urlsOnHold, calls[c].key))
  /\ [][\A c, q \in Calls : \A k \in CacheKeys :
          (/\ Lands(c, k)
           /\ calls[c].mode = "regenerate"
           /\ q # c
           /\ store[k].present /\ store[k].html = q
           /\ calls[q].mode = "regenerate" /\ calls[q].key = k) =>
            calls[q].nth < calls[c].nth]_vars

\* C28: of the renderer operations started by mode 'regenerate' calls for one
\* cache key at most one is running, a renderer whose call timed out included.
C28_OneRendererRunning ==
  \A c1, c2 \in Calls :
    (/\ c1 # c2
     /\ calls[c1].mode = "regenerate" /\ calls[c2].mode = "regenerate"
     /\ calls[c1].key = calls[c2].key
     /\ calls[c1].rendering) =>
      ~calls[c2].rendering
====
